---- MODULE Spec2Model ----
(***************************************************************************)
(* Recipe catalogue backend: the recipes router (list, create, get,        *)
(* update, delete, rate), the tables it writes (recipes, recipe_ratings)   *)
(* and the pagination helper.                                              *)
(*                                                                         *)
(* Conventions.  Python's None is the empty tuple and a present value x is *)
(* the one-element tuple <<x>>.  Text (titles, tags, search strings) is a  *)
(* sequence of one-character strings, so that lower() and LIKE are         *)
(* computed on characters.  A float average is the reduced fraction        *)
(* <<numerator, denominator>>.  Primary keys of rating rows are opaque:    *)
(* rows are numbered per (user_id, recipe_id).  The acting user of a call  *)
(* is the user get_current_active_user resolved from the bearer token.     *)
(***************************************************************************)
EXTENDS Integers, Sequences, FiniteSets, TLC

VARIABLES
    recipes,    \* table recipes: id -> row
    ratings,    \* table recipe_ratings: a set of rows
    calls,      \* the rate_recipe requests in flight, one slot per worker
    resp        \* the response of the request that completed last

vars == <<recipes, ratings, calls, resp>>

\* ------------------------------------------------------------------ bounds
MaxRecipes == 2
MaxTime == 1

\* --------------------------------------------------------- program constants
MinRating == 1
MaxRating == 5
DefaultPage == 1
DefaultPageSize == 20

\* ------------------------------------------------------------ input universe
None == <<>>
Some(x) == <<x>>

UserIds == {1, 2}
Publisher == CHOOSE u \in UserIds : \A v \in UserIds : u <= v
Procs == {"w1", "w2"}

TagIt == <<"i", "t">>
TagVeg == <<"v", "e", "g">>
TagVegan == <<"v", "e", "g", "a", "n">>
TitlePasta == <<"P", "a">>
TitlePie == <<"p", "i">>
TitleNew == <<"S", "o">>
MetaPasta == [cuisine |-> "Italian", difficulty |-> "easy", time |-> 25]
MetaQuick == [cuisine |-> "Thai", time |-> 10]

\* RecipeCreate bodies (RecipeBase fields, avg_rating included)
PayloadPasta ==
    [title |-> Some(TitlePasta), description |-> Some("fresh"),
     ingredients |-> Some(<<"pasta", "peas">>), steps |-> Some(<<"boil">>),
     tags |-> Some(<<TagIt, TagVeg>>), metadata |-> Some(MetaPasta),
     avg_rating |-> None]
\* the same body with an avg_rating of the caller's own
PayloadRated ==
    [title |-> Some(TitlePasta), description |-> Some("fresh"),
     ingredients |-> Some(<<"pasta", "peas">>), steps |-> Some(<<"boil">>),
     tags |-> Some(<<TagIt, TagVeg>>), metadata |-> None,
     avg_rating |-> Some(<<5, 1>>)]
CreateInputs == {PayloadPasta, PayloadRated}
\* a recipe with another title and one tag
PayloadPie ==
    [title |-> Some(TitlePie), description |-> None,
     ingredients |-> None, steps |-> None,
     tags |-> Some(<<TagVegan>>), metadata |-> Some(MetaQuick),
     avg_rating |-> None]

\* RecipeUpdate bodies: the keys are the fields the caller set
UpdateFields == {"title", "description", "ingredients", "steps", "tags", "metadata"}
UpdTitle == [f \in {"title"} |-> Some(TitleNew)]
UpdMeta == [f \in {"metadata"} |-> Some(MetaQuick)]
UpdNoTitle == [f \in {"title"} |-> None]
UpdateInputs == {UpdTitle, UpdMeta, UpdNoTitle}

\* RatingCreate bodies
RateLow == [rating |-> 1, comment |-> Some("ok")]
RateHigh == [rating |-> 4, comment |-> None]
RateInputs ==
    {[rating |-> 0, comment |-> None], RateLow, RateHigh,
     [rating |-> 6, comment |-> Some("ok")]}

\* list_recipes query strings
NoFilter ==
    [search |-> None, tags |-> None, cuisine |-> None, difficulty |-> None,
     min_time |-> None, max_time |-> None]
Filters ==
    {NoFilter,
     [NoFilter EXCEPT !.search = Some(<<"P", "A">>)],
     [NoFilter EXCEPT !.tags = Some(<<TagVeg>>)],
     [NoFilter EXCEPT !.cuisine = Some("Italian")],
     [NoFilter EXCEPT !.tags = Some(<<TagIt>>), !.min_time = Some(20), !.max_time = Some(30)]}
Sorts == {"newest", "oldest", "rating"}
PageInputs == {None, Some(-1), Some(0), Some(1), Some(2), Some(3)}
SizeInputs == {None, Some(-1), Some(0), Some(1), Some(2)}
Query(f, sort, page, page_size) ==
    [search |-> f.search, tags |-> f.tags, cuisine |-> f.cuisine,
     difficulty |-> f.difficulty, min_time |-> f.min_time, max_time |-> f.max_time,
     sort |-> sort, page |-> page, page_size |-> page_size]
Queries ==
    {Query(f, sort, pg, sz) :
        f \in Filters, sort \in Sorts, pg \in {Some(1), Some(2)}, sz \in {Some(1), Some(2)}}
    \cup {Query(NoFilter, "newest", pg, sz) : pg \in PageInputs, sz \in SizeInputs}

\* ------------------------------------------------------------------ helpers
Max(S) == CHOOSE x \in S : \A y \in S : y <= x

RECURSIVE Gcd(_, _)
Gcd(a, b) == IF b = 0 THEN a ELSE Gcd(b, a % b)

\* the float n/d, kept exact
Float(n, d) == LET g == Gcd(n, d) IN <<n \div g, d \div g>>

\* ---------------------------------------------------------------- responses
IdleCall ==
    [pc |-> "idle", user |-> 0, recipe_id |-> 0,
     body |-> [rating |-> 0, comment |-> None],
     existing |-> None, avg |-> None, loaded |-> {}, recomputes |-> 0,
     overlap |-> FALSE, status |-> "none"]

\* a response, with the request it answers: op and status, the acting user, the
\* recipe id of the path, the request body (req), the row the handler read
\* before it wrote (prior) and the response body
Response(op, status, u, rid, req, prior, body) ==
    [op |-> op, status |-> status, user |-> u, recipe_id |-> rid,
     req |-> req, prior |-> prior, body |-> body]

\* ------------------------------------------------------------ table recipes
\* db.query(Recipe).filter(Recipe.id == recipe_id).first()
RecipeFirst(recs, rid) == IF rid \in DOMAIN recs THEN Some(recs[rid]) ELSE None

\* the integer primary key the store gives the next recipe row
NextRecipeId(recs) == IF DOMAIN recs = {} THEN 1 ELSE Max(DOMAIN recs) + 1

\* server_default=func.now() of the row created last
LastCreated(recs) ==
    IF DOMAIN recs = {} THEN 0 ELSE Max({recs[i].created_at : i \in DOMAIN recs})

\* Recipe(owner_id=..., title=..., ..., metadata=recipe.metadata): the mapped
\* column is recipe_metadata, so the keyword metadata sets a plain attribute of
\* the object and the column stays NULL; avg_rating is not passed at all.
NewRecipe(u, p, rid, now) ==
    [id |-> rid, owner_id |-> u, title |-> p.title, description |-> p.description,
     ingredients |-> p.ingredients, steps |-> p.steps, tags |-> p.tags,
     recipe_metadata |-> None, avg_rating |-> None, created_at |-> now]

\* the mapped columns setattr(obj, field, value) can reach from RecipeUpdate
MappedFields == {"title", "description", "ingredients", "steps", "tags"}

\* for field, value in data.model_dump(exclude_unset=True).items(): setattr(...)
ApplyUpdate(row, data) ==
    [c \in DOMAIN row |->
        IF c \in DOMAIN data /\ c \in MappedFields THEN data[c] ELSE row[c]]

\* recipes.title is NOT NULL: the flush of a row without a title fails
RowAccepted(row) == row.title # None

\* mutant: the ownership check lets any user through
IsOwnerAnyone(row, u) == TRUE

\* obj.owner_id != current_user.id raises 403
IsOwner(row, u) == row.owner_id = u

\* ------------------------------------------------------ table recipe_ratings
RatingsOf(rts, rid) == {r \in rts : r.recipe_id = rid}
RatingsBy(rts, u, rid) == {r \in rts : r.user_id = u /\ r.recipe_id = rid}

\* mutant: the lower limit of the score is 0
RatingValidFromZero(b) == b.rating >= 0 /\ b.rating <= MaxRating

\* RatingCreate.rating: Field(..., ge=1, le=5)
RatingValid(b) == b.rating >= MinRating /\ b.rating <= MaxRating

\* db.query(RecipeRating).filter(recipe_id ==, user_id ==).first(): any one
\* matching row, or None
FirstRating(rts, u, rid) ==
    IF RatingsBy(rts, u, rid) = {} THEN {None}
    ELSE {Some(r) : r \in RatingsBy(rts, u, rid)}

\* the key of a new row: rows are numbered per (user_id, recipe_id)
NextRatingId(rts, u, rid) ==
    IF RatingsBy(rts, u, rid) = {} THEN 1
    ELSE Max({r.id : r \in RatingsBy(rts, u, rid)}) + 1

\* mutant: the table has no uniqueness constraint
UniqueViolationNever(rts, u, rid) == FALSE

\* UniqueConstraint("user_id", "recipe_id"): an INSERT of a second row for the
\* pair is refused
UniqueViolation(rts, u, rid) == RatingsBy(rts, u, rid) # {}

SameRow(r, s) == r.id = s.id /\ r.user_id = s.user_id /\ r.recipe_id = s.recipe_id

\* mutant: the update of the row found forgets the comment
FlushRatingKeepsComment(rts, existing, u, rid, b) ==
    IF existing # None
    THEN LET old == existing[1]
             hit == {r \in rts : SameRow(r, old)}
         IN  IF hit = {} THEN [ok |-> FALSE, rows |-> rts]
             ELSE [ok |-> TRUE,
                   rows |-> (rts \ hit) \cup {[r EXCEPT !.rating = b.rating] : r \in hit}]
    ELSE IF UniqueViolation(rts, u, rid) THEN [ok |-> FALSE, rows |-> rts]
         ELSE [ok |-> TRUE,
               rows |-> rts \cup
                   {[id |-> NextRatingId(rts, u, rid), user_id |-> u, recipe_id |-> rid,
                     rating |-> b.rating, comment |-> b.comment]}]

\* lines 178-186: the UPDATE of the row found, or the INSERT of a new one, and
\* the commit.  ok is FALSE when the flush raises (the UPDATE matches no row, or
\* the INSERT breaks the uniqueness constraint); the session is then closed
\* with nothing written.
FlushRating(rts, existing, u, rid, b) ==
    IF existing # None
    THEN LET old == existing[1]
             hit == {r \in rts : SameRow(r, old)}
         IN  IF hit = {} THEN [ok |-> FALSE, rows |-> rts]
             ELSE [ok |-> TRUE,
                   rows |-> (rts \ hit) \cup
                       {[r EXCEPT !.rating = b.rating, !.comment = b.comment] : r \in hit}]
    ELSE IF UniqueViolation(rts, u, rid) THEN [ok |-> FALSE, rows |-> rts]
         ELSE [ok |-> TRUE,
               rows |-> rts \cup
                   {[id |-> NextRatingId(rts, u, rid), user_id |-> u, recipe_id |-> rid,
                     rating |-> b.rating, comment |-> b.comment]}]

RECURSIVE SumRatings(_)
SumRatings(S) ==
    IF S = {} THEN 0
    ELSE LET r == CHOOSE x \in S : TRUE IN r.rating + SumRatings(S \ {r})

\* mutant: the average is taken with an integer division
AvgRatingTruncated(rts, rid) ==
    IF RatingsOf(rts, rid) = {} THEN None
    ELSE Some(Float(SumRatings(RatingsOf(rts, rid)) \div Cardinality(RatingsOf(rts, rid)), 1))

\* db.query(func.avg(RecipeRating.rating)).filter(recipe_id ==).scalar(), then
\* float(avg) if avg is not None else None
AvgRating(rts, rid) ==
    IF RatingsOf(rts, rid) = {} THEN None
    ELSE Some(Float(SumRatings(RatingsOf(rts, rid)), Cardinality(RatingsOf(rts, rid))))

\* recipe.avg_rating = ...; db.add(recipe); db.commit()
StoreAvg(recs, rid, avg) == [recs EXCEPT ![rid].avg_rating = avg]

\* mutant: the relationship does not cascade
CascadeDeleteNothing(rts, rid) == rts

\* cascade="all, delete-orphan" on Recipe.ratings: db.delete(obj) deletes the
\* rating rows of the recipe with it
CascadeDelete(rts, rid) == rts \ RatingsOf(rts, rid)

RemoveRecipe(recs, rid) == [i \in DOMAIN recs \ {rid} |-> recs[i]]

\* ------------------------------------------------------------ list_recipes
LowerChar(c) ==
    CASE c = "P" -> "p"
      [] c = "S" -> "s"
      [] c = "A" -> "a"
      [] OTHER -> c

\* str.lower() and SQL lower()
Lower(t) == [i \in 1 .. Len(t) |-> LowerChar(t[i])]

\* text LIKE '%part%'
Contains(text, part) ==
    \E i \in 0 .. (Len(text) - Len(part)) :
        \A j \in 1 .. Len(part) : text[i + j] = part[j]

\* text LIKE '%part' (no wildcard after part)
EndsWith(text, part) ==
    /\ Len(part) <= Len(text)
    /\ \A j \in 1 .. Len(part) : text[Len(text) - Len(part) + j] = part[j]

RECURSIVE JoinTags(_)
JoinTags(ts) ==
    IF ts = <<>> THEN <<>>
    ELSE <<"\"">> \o Head(ts) \o <<"\"">> \o
         (IF Tail(ts) = <<>> THEN <<>> ELSE <<",", " ">> \o JoinTags(Tail(ts)))

\* CAST(recipes.tags AS TEXT) of the JSON list column; NULL stays NULL
TagsText(row) ==
    IF row.tags = None THEN None ELSE Some(<<"[">> \o JoinTags(row.tags[1]) \o <<"]">>)

\* the JSON object of the metadata column as text, one element per lexeme
MetaLexemes(m) ==
    LET part(k, v) == IF k \in DOMAIN m THEN <<<<"\"" \o k \o "\": ", v>>>> ELSE <<>>
        items == part("cuisine", IF "cuisine" \in DOMAIN m THEN "\"" \o m.cuisine \o "\"" ELSE "")
                 \o part("difficulty",
                         IF "difficulty" \in DOMAIN m THEN "\"" \o m.difficulty \o "\"" ELSE "")
                 \o part("time", IF "time" \in DOMAIN m THEN ToString(m.time) ELSE "")
        RECURSIVE flat(_)
        flat(xs) ==
            IF xs = <<>> THEN <<>>
            ELSE Head(xs) \o (IF Tail(xs) = <<>> THEN <<>> ELSE <<", ">> \o flat(Tail(xs)))
    IN  <<"{">> \o flat(items) \o <<"}">>

\* CAST(... AS TEXT) of the metadata column; NULL stays NULL
MetaText(row) ==
    IF row.recipe_metadata = None THEN None ELSE Some(MetaLexemes(row.recipe_metadata[1]))

\* _apply_filters: the conjunction of the filters whose argument is truthy
\* (search, tags, cuisine, difficulty) or not None (min_time, max_time)
Matches(row, q) ==
    /\ (q.search # None /\ q.search[1] # <<>>) =>
           Contains(Lower(row.title[1]), Lower(q.search[1]))
    /\ (q.tags # None /\ q.tags[1] # <<>>) =>
           \A i \in 1 .. Len(q.tags[1]) :
               TagsText(row) # None /\ Contains(TagsText(row)[1], q.tags[1][i])
    /\ q.cuisine # None =>
           /\ MetaText(row) # None
           /\ Contains(MetaText(row)[1], <<"\"cuisine\": ", "\"" \o q.cuisine[1] \o "\"">>)
    /\ q.difficulty # None =>
           /\ MetaText(row) # None
           /\ Contains(MetaText(row)[1], <<"\"difficulty\": ", "\"" \o q.difficulty[1] \o "\"">>)
    /\ q.min_time # None =>
           MetaText(row) # None /\ EndsWith(MetaText(row)[1], <<"\"time\":">>)
    /\ q.max_time # None =>
           MetaText(row) # None /\ EndsWith(MetaText(row)[1], <<"\"time\":">>)

\* a < b for two floats
FloatLess(a, b) == a[1] * b[2] < b[1] * a[2]

\* row a must come before row b under the ORDER BY of the sort key
\* (oldest: created_at ascending; rating: avg_rating descending, NULL last;
\* anything else: created_at descending)
Before(a, b, sort) ==
    IF sort = "oldest" THEN a.created_at < b.created_at
    ELSE IF sort = "rating"
    THEN /\ a.avg_rating # None
         /\ (b.avg_rating = None \/ FloatLess(b.avg_rating[1], a.avg_rating[1]))
    ELSE a.created_at > b.created_at

RECURSIVE Perms(_)
Perms(S) ==
    IF S = {} THEN {<<>>}
    ELSE UNION {{<<x>> \o t : t \in Perms(S \ {x})} : x \in S}

\* the orders the store may return the matching rows in: ORDER BY fixes the
\* order of rows that differ in the sort key and says nothing of the others
Orderings(recs, q) ==
    {o \in Perms({rid \in DOMAIN recs : Matches(recs[rid], q)}) :
        \A i, j \in 1 .. Len(o) : i < j => ~Before(recs[o[j]], recs[o[i]], q.sort)}

\* mutant: a page size below 1 is passed on as it is
pagination_paramsUnclamped(page, page_size) ==
    LET p0 == IF page = None \/ page = Some(0) THEN DefaultPage ELSE page[1]
        s0 == IF page_size = None \/ page_size = Some(0) THEN DefaultPageSize ELSE page_size[1]
        p1 == IF p0 < 1 THEN 1 ELSE p0
    IN  <<(p1 - 1) * s0, s0>>

\* pagination_params: <<offset, limit>>
pagination_params(page, page_size) ==
    LET p0 == IF page = None \/ page = Some(0) THEN DefaultPage ELSE page[1]
        s0 == IF page_size = None \/ page_size = Some(0) THEN DefaultPageSize ELSE page_size[1]
        p1 == IF p0 < 1 THEN 1 ELSE p0
        s1 == IF s0 < 1 THEN DefaultPageSize ELSE s0
    IN  <<(p1 - 1) * s1, s1>>

\* query.offset(offset).limit(limit).all()
Slice(o, offset, limit) ==
    [i \in 1 .. (IF Len(o) - offset < 0 THEN 0
                 ELSE IF Len(o) - offset < limit THEN Len(o) - offset ELSE limit)
        |-> o[offset + i]]

\* the query uses an expression whose rendering is left to the SQL toolkit and
\* the store: func.cast(column, func.TEXT) with a function where a type is
\* expected, Recipe.metadata (the table registry, not the column
\* recipe_metadata), or desc(column.nullslast()), which puts NULLS LAST before
\* DESC.  Such a query may be refused; when it is accepted it is evaluated as
\* written above.
Fragile(q) ==
    \/ q.tags # None /\ q.tags[1] # <<>>
    \/ q.cuisine # None
    \/ q.difficulty # None
    \/ q.min_time # None
    \/ q.max_time # None
    \/ q.sort = "rating"

\* every response list_recipes can give: the ids of the page, in order
ListOutcomes(recs, q) ==
    {Response("list", "OK", 0, 0, Some(q), None,
              Slice(o, pagination_params(q.page, q.page_size)[1],
                       pagination_params(q.page, q.page_size)[2])) :
        o \in Orderings(recs, q)}
    \cup (IF Fragile(q) THEN {Response("list", "ServerError", 0, 0, Some(q), None, <<>>)} ELSE {})

\* ----------------------------------------------------------------- handlers
Init ==
    /\ recipes = <<>>
    /\ ratings = {}
    /\ calls = [p \in Procs |-> IdleCall]
    /\ resp = Response("none", "OK", 0, 0, None, None, None)

\* create_recipe; dt is whether the clock moved since the last row was created
CreateRecipe(u, p, dt) ==
    LET rid == NextRecipeId(recipes)
        row == NewRecipe(u, p, rid, LastCreated(recipes) + dt)
    IN  /\ rid <= MaxRecipes
        /\ row.created_at <= MaxTime
        /\ recipes' = (rid :> row) @@ recipes
        /\ resp' = Response("create", "OK", u, rid, Some(p), None, Some(row))
        /\ UNCHANGED <<ratings, calls>>

\* get_recipe: 404 when the query finds no row
GetResponse(recs, rid) ==
    IF RecipeFirst(recs, rid) = None
    THEN Response("get", "NotFound", 0, rid, None, None, None)
    ELSE Response("get", "OK", 0, rid, None, None, RecipeFirst(recs, rid))

GetRecipe(rid) ==
    /\ resp' = GetResponse(recipes, rid)
    /\ UNCHANGED <<recipes, ratings, calls>>

\* update_recipe
UpdateRecipe(u, rid, data) ==
    LET obj == RecipeFirst(recipes, rid) IN
    IF obj = None
    THEN /\ resp' = Response("update", "NotFound", u, rid, Some(data), None, None)
         /\ UNCHANGED <<recipes, ratings, calls>>
    ELSE IF ~IsOwner(obj[1], u)
    THEN /\ resp' = Response("update", "Forbidden", u, rid, Some(data), obj, None)
         /\ UNCHANGED <<recipes, ratings, calls>>
    ELSE IF ~RowAccepted(ApplyUpdate(obj[1], data))
    THEN /\ resp' = Response("update", "ServerError", u, rid, Some(data), obj, None)
         /\ UNCHANGED <<recipes, ratings, calls>>
    ELSE /\ recipes' = [recipes EXCEPT ![rid] = ApplyUpdate(obj[1], data)]
         /\ resp' = Response("update", "OK", u, rid, Some(data), obj, Some(recipes'[rid]))
         /\ UNCHANGED <<ratings, calls>>

\* delete_recipe
DeleteRecipe(u, rid) ==
    LET obj == RecipeFirst(recipes, rid) IN
    IF obj = None
    THEN /\ resp' = Response("delete", "NotFound", u, rid, None, None, None)
         /\ UNCHANGED <<recipes, ratings, calls>>
    ELSE IF ~IsOwner(obj[1], u)
    THEN /\ resp' = Response("delete", "Forbidden", u, rid, None, obj, None)
         /\ UNCHANGED <<recipes, ratings, calls>>
    ELSE /\ recipes' = RemoveRecipe(recipes, rid)
         /\ ratings' = CascadeDelete(ratings, rid)
         /\ resp' = Response("delete", "OK", u, rid, None, obj, None)
         /\ UNCHANGED calls

\* rate_recipe, run from its first line to its last with no other request in
\* between
RateRecipe(u, rid, b) ==
    IF ~RatingValid(b)
    THEN /\ resp' = Response("rate", "ValidationError", u, rid, Some(b), None, None)
         /\ UNCHANGED <<recipes, ratings, calls>>
    ELSE IF RecipeFirst(recipes, rid) = None
    THEN /\ resp' = Response("rate", "NotFound", u, rid, Some(b), None, None)
         /\ UNCHANGED <<recipes, ratings, calls>>
    ELSE \E existing \in FirstRating(ratings, u, rid) :
         LET fl == FlushRating(ratings, existing, u, rid, b) IN
         IF ~fl.ok
         THEN /\ resp' = Response("rate", "ServerError", u, rid, Some(b), existing, None)
              /\ UNCHANGED <<recipes, ratings, calls>>
         ELSE /\ ratings' = fl.rows
              /\ recipes' = StoreAvg(recipes, rid, AvgRating(fl.rows, rid))
              /\ resp' = Response("rate", "OK", u, rid, Some(b), existing, Some(recipes'[rid]))
              /\ UNCHANGED calls

RecipeIds == 1 .. MaxRecipes

\* the catalogue with one request at a time: one user publishes recipes, every
\* user rates them
Next ==
    \/ \E p \in CreateInputs : CreateRecipe(Publisher, p, 0)
    \/ \E u \in UserIds, rid \in RecipeIds : UpdateRecipe(u, rid, UpdMeta)
    \/ \E u \in UserIds, rid \in RecipeIds : DeleteRecipe(u, rid)
    \/ \E u \in UserIds, rid \in RecipeIds, b \in RateInputs : RateRecipe(u, rid, b)

Spec == Init /\ [][Next]_vars

\* the catalogue with one request at a time: recipes are created, read, edited
\* and deleted by their owner and by others
NextEdit ==
    \/ \E u \in UserIds : CreateRecipe(u, PayloadPasta, 0)
    \/ \E rid \in RecipeIds : GetRecipe(rid)
    \/ \E u \in UserIds, rid \in RecipeIds, data \in UpdateInputs : UpdateRecipe(u, rid, data)
    \/ \E u \in UserIds, rid \in RecipeIds : DeleteRecipe(u, rid)
    \/ \E u \in UserIds, rid \in RecipeIds : RateRecipe(u, rid, RateHigh)

SpecEdit == Init /\ [][NextEdit]_vars

\* list_recipes
ListRecipes(q) ==
    /\ \E r \in ListOutcomes(recipes, q) : resp' = r
    /\ UNCHANGED <<recipes, ratings, calls>>

\* the ratings a recipe of the listing specification has received
Profiles == {<<>>, <<RateHigh>>, <<RateLow, RateHigh>>}

RECURSIVE RatedBy(_, _, _)
\* the rating rows after users 1 .. Len(prof) rated recipe rid in turn
RatedBy(rts, rid, prof) ==
    IF prof = <<>> THEN rts
    ELSE FlushRating(RatedBy(rts, rid, SubSeq(prof, 1, Len(prof) - 1)),
                     None, Len(prof), rid, prof[Len(prof)]).rows

\* list_recipes is a function of the table and the query: the tables are the
\* ones n creations and the ratings of the profiles leave
InitList ==
    \E n \in 0 .. MaxRecipes :
    \E kind \in [1 .. n -> {PayloadPasta, PayloadPie}] :
    \E prof \in [1 .. n -> Profiles] :
    \E at \in [1 .. n -> 0 .. MaxTime] :
        /\ \A i, j \in 1 .. n : i < j => at[i] <= at[j]
        /\ ratings = UNION {RatedBy({}, i, prof[i]) : i \in 1 .. n}
        /\ recipes = [i \in 1 .. n |->
               [NewRecipe(Publisher, kind[i], i, at[i])
                   EXCEPT !.avg_rating = AvgRating(RatedBy({}, i, prof[i]), i)]]
        /\ calls = [p \in Procs |-> IdleCall]
        /\ resp = Response("none", "OK", 0, 0, None, None, None)

\* a listing writes nothing, so the first listing of a behaviour reaches every
\* state a later one could
NextList == resp.op = "none" /\ \E q \in Queries : ListRecipes(q)

SpecList == InitList /\ [][NextList]_vars

\* ------------------------------------------- rate_recipe, statement by statement
\* A worker runs one request at a time.  While the request runs, its slot holds
\* the request, the row it found and the average it read; once it has ended
\* (pc = "idle") the slot keeps who rated what with which body, the row the
\* lookup had found, recomputes (how many times the request ran the aggregate
\* read of line 189), the status of the response and overlap: whether another
\* request was in flight at any time during it.
InFlight(p) == calls[p].pc # "idle"

Ended(c, status) ==
    [IdleCall EXCEPT !.user = c.user, !.recipe_id = c.recipe_id, !.body = c.body,
                     !.existing = c.existing, !.recomputes = c.recomputes,
                     !.overlap = c.overlap, !.status = status]

\* lines 160-171: validation of the body, then the existence check
RateBegin(p, u, rid, b) ==
    /\ ~InFlight(p)
    /\ IF ~RatingValid(b)
       THEN calls' = [calls EXCEPT ![p] = [IdleCall EXCEPT !.status = "ValidationError"]]
       ELSE IF RecipeFirst(recipes, rid) = None
       THEN calls' = [calls EXCEPT ![p] = [IdleCall EXCEPT !.status = "NotFound"]]
       ELSE calls' = [q \in Procs |->
                IF q = p
                THEN [IdleCall EXCEPT !.pc = "lookup", !.user = u, !.recipe_id = rid,
                                      !.body = b,
                                      !.overlap = \E o \in Procs \ {p} : InFlight(o)]
                ELSE IF InFlight(q) THEN [calls[q] EXCEPT !.overlap = TRUE]
                ELSE calls[q]]
    /\ UNCHANGED <<recipes, ratings, resp>>

\* lines 173-177: the row this user already has for the recipe, if any
RateLookup(p) ==
    /\ calls[p].pc = "lookup"
    /\ \E existing \in FirstRating(ratings, calls[p].user, calls[p].recipe_id) :
           calls' = [calls EXCEPT ![p].existing = existing, ![p].pc = "upsert"]
    /\ UNCHANGED <<recipes, ratings, resp>>

\* lines 178-186: update or insert, and commit.  recipe_id is a foreign key
\* (models.py line 113): the INSERT of a row for a recipe that has been deleted
\* in the meantime is refused by a store that enforces foreign keys and accepted
\* by one that does not (SQLite as session.py opens it, with no PRAGMA
\* foreign_keys).
RateUpsert(p) ==
    LET c == calls[p]
        fl == FlushRating(ratings, c.existing, c.user, c.recipe_id, c.body)
        gone == RecipeFirst(recipes, c.recipe_id) = None
    IN  /\ c.pc = "upsert"
        /\ \E enforced \in BOOLEAN :
           IF fl.ok /\ ~(gone /\ enforced)
           THEN /\ ratings' = fl.rows
                /\ calls' = [calls EXCEPT ![p].pc = "avg"]
           ELSE /\ calls' = [calls EXCEPT ![p] = Ended(c, "ServerError")]
                /\ UNCHANGED ratings
        /\ UNCHANGED <<recipes, resp>>

\* line 189: the aggregate read
RateAvgRead(p) ==
    /\ calls[p].pc = "avg"
    /\ calls' = [calls EXCEPT ![p].avg = AvgRating(ratings, calls[p].recipe_id),
                              ![p].recomputes = @ + 1,
                              ![p].pc = "store"]
    /\ UNCHANGED <<recipes, ratings, resp>>

\* lines 190-194: the write of avg_rating, the commit and the refresh; the
\* UPDATE of a recipe row that is gone matches nothing and the flush raises
RateAvgStore(p) ==
    LET c == calls[p] IN
    /\ c.pc = "store"
    /\ IF RecipeFirst(recipes, c.recipe_id) = None
       THEN /\ calls' = [calls EXCEPT ![p] = Ended(c, "ServerError")]
            /\ UNCHANGED recipes
       ELSE /\ recipes' = StoreAvg(recipes, c.recipe_id, c.avg)
            /\ calls' = [calls EXCEPT ![p] = Ended(c, "OK")]
    /\ UNCHANGED <<ratings, resp>>

\* lines 190-192 while another request holds the lock of the store: the
\* commit raises (SQLite: "database is locked" once the busy timeout has
\* passed), nothing in rate_recipe catches it, and the request ends
RateAvgFail(p) ==
    LET c == calls[p] IN
    /\ c.pc = "store"
    /\ \E o \in Procs \ {p} : InFlight(o)
    /\ calls' = [calls EXCEPT ![p] = Ended(c, "ServerError")]
    /\ UNCHANGED <<recipes, ratings, resp>>

\* delete_recipe lines 149-153: the lookup and the ownership check
DeleteBegin(p, u, rid) ==
    LET obj == RecipeFirst(recipes, rid) IN
    /\ ~InFlight(p)
    /\ IF obj = None
       THEN calls' = [calls EXCEPT ![p] = [IdleCall EXCEPT !.status = "NotFound"]]
       ELSE IF ~IsOwner(obj[1], u)
       THEN calls' = [calls EXCEPT ![p] = [IdleCall EXCEPT !.status = "Forbidden"]]
       ELSE calls' = [q \in Procs |->
                IF q = p
                THEN [IdleCall EXCEPT !.pc = "cascade", !.user = u, !.recipe_id = rid,
                                      !.overlap = \E o \in Procs \ {p} : InFlight(o)]
                ELSE IF InFlight(q) THEN [calls[q] EXCEPT !.overlap = TRUE]
                ELSE calls[q]]
    /\ UNCHANGED <<recipes, ratings, resp>>

\* line 154: db.delete(obj) reads obj.ratings and marks the rows it finds
DeleteLoad(p) ==
    /\ calls[p].pc = "cascade"
    /\ calls' = [calls EXCEPT ![p].loaded = RatingsOf(ratings, calls[p].recipe_id),
                              ![p].pc = "delete"]
    /\ UNCHANGED <<recipes, ratings, resp>>

\* line 155: the DELETE of the marked rating rows and of the recipe, and the
\* commit.  A store that enforces foreign keys removes with the recipe
\* (ondelete="CASCADE") the rating rows committed since line 154; one that does
\* not leaves them.  The DELETE of a recipe that is gone matches no row and the
\* flush raises.
DeleteCommit(p) ==
    LET c == calls[p] IN
    /\ c.pc = "delete"
    /\ IF RecipeFirst(recipes, c.recipe_id) = None
       THEN /\ calls' = [calls EXCEPT ![p] = Ended(c, "ServerError")]
            /\ UNCHANGED <<recipes, ratings>>
       ELSE /\ recipes' = RemoveRecipe(recipes, c.recipe_id)
            /\ \E enforced \in BOOLEAN :
                   ratings' = IF enforced THEN CascadeDelete(ratings, c.recipe_id)
                              ELSE {r \in ratings : \A l \in c.loaded : ~SameRow(r, l)}
            /\ calls' = [calls EXCEPT ![p] = Ended(c, "OK")]
    /\ UNCHANGED resp

\* one recipe has been published
InitConc ==
    /\ recipes = (1 :> NewRecipe(Publisher, PayloadPasta, 1, 0))
    /\ ratings = {}
    /\ calls = [p \in Procs |-> IdleCall]
    /\ resp = Response("create", "OK", Publisher, 1, Some(PayloadPasta), None,
                       Some(NewRecipe(Publisher, PayloadPasta, 1, 0)))

\* the workers rate concurrently: each request is handled independently and
\* their statements interleave
NextConc ==
    \E p \in Procs :
        \/ \E u \in UserIds, rid \in RecipeIds, b \in RateInputs : RateBegin(p, u, rid, b)
        \/ RateLookup(p)
        \/ RateUpsert(p)
        \/ RateAvgRead(p)
        \/ RateAvgStore(p)

SpecConc == InitConc /\ [][NextConc]_vars

\* the same requests on a store that can refuse a commit under contention
NextFault ==
    \E p \in Procs :
        \/ \E u \in UserIds, rid \in RecipeIds, b \in RateInputs : RateBegin(p, u, rid, b)
        \/ RateLookup(p)
        \/ RateUpsert(p)
        \/ RateAvgRead(p)
        \/ RateAvgStore(p)
        \/ RateAvgFail(p)

SpecFault == InitConc /\ [][NextFault]_vars

\* ratings and deletions of the owner run concurrently
NextRace ==
    \E p \in Procs :
        \/ \E u \in UserIds, rid \in RecipeIds : RateBegin(p, u, rid, RateHigh)
        \/ RateLookup(p)
        \/ RateUpsert(p)
        \/ RateAvgRead(p)
        \/ RateAvgStore(p)
        \/ \E u \in UserIds, rid \in RecipeIds : DeleteBegin(p, u, rid)
        \/ DeleteLoad(p)
        \/ DeleteCommit(p)

SpecRace == InitConc /\ [][NextRace]_vars

\* ===================================================================== claims
Range(f) == {f[i] : i \in DOMAIN f}

\* the mean of the scores of a non-empty set of rating rows is the float a
IsMeanOf(a, rows) ==
    /\ a[2] > 0
    /\ a[1] * Cardinality(rows) = a[2] * SumRatings(rows)

\* C1: when no request is running, every recipe's avg_rating is null exactly
\* when it has no rating row and is otherwise the mean of the scores of its
\* rating rows; a created recipe is returned with a null avg_rating whatever
\* the caller sent, and rate_recipe returns the recipe with that mean.
C1_AvgIsMean ==
    /\ \A rid \in DOMAIN recipes :
        LET rows == {r \in ratings : r.recipe_id = rid}
            avg == recipes[rid].avg_rating
        IN  /\ (avg = None) <=> (rows = {})
            /\ rows # {} => IsMeanOf(avg[1], rows)
    /\ (resp.op \in {"create", "update", "rate"} /\ resp.status = "OK") =>
           resp.body = Some(recipes[resp.recipe_id])
    /\ (resp.op = "create" /\ resp.status = "OK") => resp.body[1].avg_rating = None

C1_Witness ==
    /\ resp.op = "rate" /\ resp.status = "OK"
    /\ Cardinality({r \in ratings : r.recipe_id = resp.recipe_id}) = 2
    /\ resp.body[1].avg_rating = Some(<<5, 2>>)
    /\ \E rid \in DOMAIN recipes : recipes[rid].avg_rating = None

\* C4: a rate_recipe call by a user who already has a rating row for the recipe
\* keeps the number of rating rows, leaves that user one row holding the score
\* and the comment of the call, and stores the mean of the other users' scores
\* and the new score.
C4_RateAgainOverwrites ==
    [][(/\ resp'.op = "rate" /\ resp'.status = "OK"
        /\ \E r \in ratings : r.user_id = resp'.user /\ r.recipe_id = resp'.recipe_id)
       => LET u == resp'.user
              rid == resp'.recipe_id
              b == resp'.req[1]
              mine == {r \in ratings' : r.user_id = u /\ r.recipe_id = rid}
              others == {r \in ratings : r.recipe_id = rid /\ r.user_id # u}
          IN  /\ Cardinality(ratings') = Cardinality(ratings)
              /\ Cardinality(mine) = 1
              /\ \A r \in mine : r.rating = b.rating /\ r.comment = b.comment
              /\ {r \in ratings : ~(r.user_id = u /\ r.recipe_id = rid)}
                     = {r \in ratings' : ~(r.user_id = u /\ r.recipe_id = rid)}
              /\ recipes'[rid].avg_rating # None
              /\ recipes'[rid].avg_rating[1][1] * (Cardinality(others) + 1)
                     = recipes'[rid].avg_rating[1][2] * (SumRatings(others) + b.rating)
      ]_vars

C4_Witness ==
    /\ resp.op = "rate" /\ resp.status = "OK"
    /\ resp.prior # None
    /\ resp.prior[1].rating # resp.req[1].rating
    /\ resp.prior[1].comment # resp.req[1].comment
    /\ Cardinality({r \in ratings : r.recipe_id = resp.recipe_id}) = 2

\* C7: a delete_recipe that succeeds leaves no rating row of the recipe,
\* get_recipe answers NotFound for its id, no list_recipes query returns it on
\* any page, and every other recipe and its rating rows are as before.
C7_DeleteRemoves ==
    [][(resp'.op = "delete" /\ resp'.status = "OK")
       => LET rid == resp'.recipe_id IN
          /\ rid \notin DOMAIN recipes'
          /\ \A r \in ratings' : r.recipe_id # rid
          /\ GetResponse(recipes', rid).status = "NotFound"
          /\ \A q \in Queries : \A o \in ListOutcomes(recipes', q) : rid \notin Range(o.body)
          /\ DOMAIN recipes' = DOMAIN recipes \ {rid}
          /\ \A other \in DOMAIN recipes' : recipes'[other] = recipes[other]
          /\ {r \in ratings : r.recipe_id # rid} = ratings'
      ]_vars

C7_Witness ==
    /\ resp.op = "delete" /\ resp.status = "OK"
    /\ resp.prior # None /\ resp.prior[1].avg_rating # None
    /\ \E other \in DOMAIN recipes : \E r \in ratings : r.recipe_id = other

\* C8: a rate_recipe call with a score below 1 or above 5 is answered with a
\* validation failure, one with a valid score for a recipe id that does not
\* exist with NotFound, and neither changes a rating row or a recipe.
C8_RateRejects ==
    [][resp'.op = "rate"
       => LET b == resp'.req[1]
              rid == resp'.recipe_id
          IN  /\ (b.rating < 1 \/ b.rating > 5)
                    => /\ resp'.status = "ValidationError"
                       /\ ratings' = ratings /\ recipes' = recipes
              /\ (b.rating >= 1 /\ b.rating <= 5 /\ rid \notin DOMAIN recipes)
                    => /\ resp'.status = "NotFound"
                       /\ ratings' = ratings /\ recipes' = recipes
              /\ resp'.status \in {"ValidationError", "NotFound"}
                    => ratings' = ratings /\ recipes' = recipes
      ]_vars

C8_Witness ==
    /\ resp.op = "rate" /\ resp.status = "ValidationError"
    /\ resp.recipe_id \in DOMAIN recipes
    /\ \E r \in ratings : r.recipe_id = resp.recipe_id /\ r.user_id = resp.user

\* C5: update_recipe and delete_recipe by a user who is not the owner of an
\* existing recipe are answered Forbidden, on an id that does not exist
\* NotFound, and in both cases no recipe and no rating row changes.
C5_OwnerOnly ==
    [][resp'.op \in {"update", "delete"}
       => LET u == resp'.user
              rid == resp'.recipe_id
          IN  /\ rid \notin DOMAIN recipes
                    => /\ resp'.status = "NotFound"
                       /\ recipes' = recipes /\ ratings' = ratings
              /\ (rid \in DOMAIN recipes /\ recipes[rid].owner_id # u)
                    => /\ resp'.status = "Forbidden"
                       /\ recipes' = recipes /\ ratings' = ratings
      ]_vars

C5_Witness ==
    /\ resp.op = "update" /\ resp.status = "Forbidden"
    /\ resp.recipe_id \in DOMAIN recipes
    /\ recipes[resp.recipe_id].owner_id # resp.user
    /\ resp.req = Some(UpdTitle)
    /\ \E r \in ratings : r.recipe_id = resp.recipe_id

\* the column that holds a field of RecipeUpdate
ColumnOf(f) == IF f = "metadata" THEN "recipe_metadata" ELSE f

\* C6: an update_recipe by the owner that succeeds stores the supplied value in
\* the column of every field of the body and leaves the column of every other
\* field, owner_id, avg_rating and all rating rows as they were.
C6_UpdateWritesFieldsSent ==
    [][(resp'.op = "update" /\ resp'.status = "OK")
       => LET rid == resp'.recipe_id
              data == resp'.req[1]
          IN  /\ \A f \in UpdateFields :
                    recipes'[rid][ColumnOf(f)] =
                        IF f \in DOMAIN data THEN data[f] ELSE recipes[rid][ColumnOf(f)]
              /\ recipes'[rid].owner_id = recipes[rid].owner_id
              /\ recipes'[rid].avg_rating = recipes[rid].avg_rating
              /\ ratings' = ratings
      ]_vars

\* the query of the example: tags=[it], min_time=20, max_time=30, first page
TimeQuery ==
    Query([NoFilter EXCEPT !.tags = Some(<<TagIt>>), !.min_time = Some(20),
                           !.max_time = Some(30)], "newest", None, None)

\* C10: right after a recipe is created, list_recipes with tags=[it],
\* min_time=20 and max_time=30 returns it exactly when its tags include it and
\* its metadata has a time between 20 and 30.
C10_TimeRangeFilter ==
    (resp.op = "create" /\ resp.status = "OK")
    => LET p == resp.req[1]
           inRange == /\ p.metadata # None
                      /\ "time" \in DOMAIN p.metadata[1]
                      /\ 20 <= p.metadata[1].time /\ p.metadata[1].time <= 30
           tagged == p.tags # None /\ TagIt \in Range(p.tags[1])
       IN  \A o \in ListOutcomes(recipes, TimeQuery) :
               /\ o.status = "OK"
               /\ (resp.recipe_id \in Range(o.body)) <=> (inRange /\ tagged)

\* C3: no two rating rows have the same user_id and recipe_id.
C3_OneRowPerUserAndRecipe ==
    \A r, t \in ratings : (r.user_id = t.user_id /\ r.recipe_id = t.recipe_id) => r = t

\* two first ratings of one recipe by one user overlapped: one was committed,
\* the other was refused
C3_Witness ==
    \E p, q \in Procs :
        /\ p # q
        /\ ~InFlight(p) /\ ~InFlight(q)
        /\ calls[p].overlap /\ calls[q].overlap
        /\ calls[p].user = calls[q].user /\ calls[p].recipe_id = calls[q].recipe_id
        /\ calls[p].status = "OK" /\ calls[q].status = "ServerError"
        /\ Cardinality(ratings) = 1

\* C2: when two rate_recipe requests of two users for one recipe overlapped and
\* both have ended successfully, the recipe has two rating rows and its
\* avg_rating is the mean of their scores.
C2_BothRatingsCounted ==
    \A p, q \in Procs :
        (/\ p # q
         /\ ~InFlight(p) /\ ~InFlight(q)
         /\ calls[p].overlap /\ calls[q].overlap
         /\ calls[p].status = "OK" /\ calls[q].status = "OK"
         /\ calls[p].user # calls[q].user
         /\ calls[p].recipe_id = calls[q].recipe_id)
        => LET rid == calls[p].recipe_id
               rows == {r \in ratings : r.recipe_id = rid}
           IN  /\ Cardinality(rows) = 2
               /\ recipes[rid].avg_rating # None
               /\ IsMeanOf(recipes[rid].avg_rating[1], rows)

\* the matching rows ordered by the sort key, rows equal in it by ascending id
TieBrokenById(recs, q) ==
    CHOOSE o \in Orderings(recs, q) :
        \A i, j \in 1 .. Len(o) :
            (i < j /\ ~Before(recs[o[i]], recs[o[j]], q.sort)) => o[i] < o[j]

\* C9: over an unchanged table, a page list_recipes returned is the slice of
\* the matching recipes ordered by the sort key and then by ascending id, the
\* next page of the same query is the slice that follows it, and the same query
\* asked again returns the same sequence.
C9_PagesOfOneOrder ==
    (resp.op = "list" /\ resp.status = "OK")
    => LET q == resp.req[1]
           total == TieBrokenById(recipes, q)
           offset == pagination_params(q.page, q.page_size)[1]
           limit == pagination_params(q.page, q.page_size)[2]
           following == [q EXCEPT !.page = Some((offset \div limit) + 2)]
       IN  /\ resp.body = Slice(total, offset, limit)
           /\ \A o \in ListOutcomes(recipes, q) :
                  o.status = "OK" => o.body = resp.body
           /\ \A o \in ListOutcomes(recipes, following) :
                  o.status = "OK"
                  => /\ Range(o.body) \cap Range(resp.body) = {}
                     /\ resp.body \o o.body = Slice(total, offset, 2 * limit)

\* C11: list_recipes with sort=rating answers with a sequence in which every
\* recipe that has an avg_rating comes before every recipe that has none and
\* the recipes that have one are in descending avg_rating order.
C11_RatedBeforeUnrated ==
    (resp.op = "list" /\ resp.req[1].sort = "rating")
    => \A o \in ListOutcomes(recipes, [resp.req[1] EXCEPT !.page = None, !.page_size = None]) :
           /\ o.status = "OK"
           /\ \A i, j \in 1 .. Len(o.body) :
                  i < j => LET a == recipes[o.body[i]].avg_rating
                               b == recipes[o.body[j]].avg_rating
                           IN  /\ a = None => b = None
                               /\ (a # None /\ b # None) => ~FloatLess(a[1], b[1])

\* the number of recipes the filters of q let through
Filtered(recs, q) == Cardinality({rid \in DOMAIN recs : Matches(recs[rid], q)})

C13_RaceLoserSucceeds ==
    \A p, q \in Procs :
        (/\ p # q
         /\ ~InFlight(p) /\ ~InFlight(q)
         /\ calls[p].overlap /\ calls[q].overlap
         /\ calls[p].status \in {"OK", "ServerError"}
         /\ calls[q].status \in {"OK", "ServerError"}
         /\ calls[p].user = calls[q].user
         /\ calls[p].recipe_id = calls[q].recipe_id
         /\ calls[p].existing = None /\ calls[q].existing = None)
        => LET rows == {r \in ratings : /\ r.user_id = calls[p].user
                                        /\ r.recipe_id = calls[p].recipe_id}
           IN  /\ calls[p].status = "OK" /\ calls[q].status = "OK"
               /\ Cardinality(rows) = 1
               /\ \A r \in rows : r.rating \in {calls[p].body.rating, calls[q].body.rating}

\* C14: a rate_recipe request that has committed its rating and has ended
\* without success ran the recompute of the average at least twice and was
\* answered with Conflict.
C14_RecomputeRetried ==
    \A p \in Procs :
        (~InFlight(p) /\ calls[p].recomputes >= 1 /\ calls[p].status # "OK")
        => /\ calls[p].recomputes >= 2
           /\ calls[p].status = "Conflict"

\* C15: once no rate_recipe and no delete_recipe request is in flight, every
\* rating row belongs to a recipe that exists.
C15_NoOrphanRating ==
    (\A p \in Procs : ~InFlight(p))
    => \A r \in ratings : r.recipe_id \in DOMAIN recipes

====
